---- MODULE Spec2Model ----
(***************************************************************************)
(* A model of suntimes.py: the SunTimes solar calculator (one place, one   *)
(* date) and the SunFiles year aggregator (one place, one year).           *)
(*                                                                         *)
(* Python values are tagged records, because the code tells them apart     *)
(* with isinstance(x, str): a str is Str(s), a datetime is                 *)
(* Datetime(y, mo, d, h, mi).  Python lists are sequences; a Python index  *)
(* i is the sequence index i + 1, and the boundary indices PDPN_dates      *)
(* collects are kept 0-based as in the code.                               *)
(***************************************************************************)
EXTENDS Integers, Sequences, FiniteSets, TLC

VARIABLES
    year,       \* SunFiles.year
    place,      \* a SunTimes object (the fields __init__ assigned), or a
                \* stand-in for one: a table of what place.riseutc(d) and
                \* place.setutc(d) return over the days of the year
    arg,        \* the date passed to the method of SunTimes that ran last
    call,       \* the method that ran last ("none" before any call)
    ret         \* what that call returned or raised, with the locals it left

vars == <<year, place, arg, call, ret>>

-----------------------------------------------------------------------------
(* Python values *)

\* A local variable of the code holds a value computed once.  The element of
\* { body : x \in {e} } is body with x standing for the value of e, computed
\* once however often body reads x; TheOne takes that element.
TheOne(S) == CHOOSE x \in S : TRUE

Str(s) == [kind |-> "str", s |-> s, ord |-> 0, h |-> 0, mi |-> 0]

\* a datetime, held as its proleptic Gregorian ordinal (date.toordinal(), with
\* 0001-01-01 as day 1) and its hour and minute; seconds are always 0
DatetimeOrd(ord, h, mi) == [kind |-> "datetime", s |-> "", ord |-> ord, h |-> h, mi |-> mi]

isinstance_str(x) == x.kind = "str"

-----------------------------------------------------------------------------
(* Calendar functions *)

\* the Julian rule: every fourth year
is_leap_year_julian(y) ==
    IF y % 4 # 0 THEN FALSE ELSE TRUE

is_leap_year(y) ==
    IF (y % 4 # 0) \/ ((y % 100 = 0) /\ (y % 400 # 0)) THEN FALSE ELSE TRUE

len_year(y) == IF is_leap_year(y) THEN 366 ELSE 365

length_month(y) ==
    IF is_leap_year(y)
    THEN <<31, 29, 31, 30, 31, 30, 31, 31, 30, 31, 30, 31>>
    ELSE <<31, 28, 31, 30, 31, 30, 31, 31, 30, 31, 30, 31>>

\* the inner loop of days_year: the days of month m (0-based), in order
days_month(y, m) == [d \in 1..length_month(y)[m + 1] |-> <<y, m + 1, d>>]

RECURSIVE days_from_month(_, _)
\* the outer loop of days_year: the months m.. (0-based), in order
days_from_month(y, m) ==
    IF m >= 12 THEN <<>>
    ELSE days_month(y, m) \o days_from_month(y, m + 1)

days_year(y) == days_from_month(y, 0)

-----------------------------------------------------------------------------
(* datetime and timedelta, as far as the code uses them *)

\* the days before January 1 of year y, counted from 0001-01-01
days_before_year(y) ==
    (y - 1) * 365 + ((y - 1) \div 4) - ((y - 1) \div 100) + ((y - 1) \div 400)

RECURSIVE days_before_month(_, _)
days_before_month(y, mo) ==
    IF mo <= 1 THEN 0
    ELSE length_month(y)[mo - 1] + days_before_month(y, mo - 1)

\* datetime(y, mo, d, h, mi)
Datetime(y, mo, d, h, mi) ==
    DatetimeOrd(days_before_year(y) + days_before_month(y, mo) + d, h, mi)

\* b - a for two datetimes: a timedelta, normalised as Python does
\* (0 <= seconds < 86400, the sign carried by days)
timedelta(b, a) ==
    LET total == (b.ord - a.ord) * 86400 + (b.h - a.h) * 3600 + (b.mi - a.mi) * 60
    IN  [kind |-> "timedelta", s |-> "", days |-> total \div 86400,
         seconds |-> total % 86400]

total_seconds(td) == td.days * 86400 + td.seconds

-----------------------------------------------------------------------------
(* seconds_to_hhmm *)

seconds_to_hhmm(seconds) ==
    LET hh0 == seconds \div 3600
        s1  == seconds % 3600
        mm0 == IF s1 % 60 <= 30 THEN s1 \div 60 ELSE (s1 \div 60) + 1
        hh1 == IF mm0 = 60 THEN hh0 + 1 ELSE hh0
        mm1 == IF mm0 = 60 THEN 0 ELSE mm0
    IN  IF hh1 >= 24 THEN <<24, 0>> ELSE <<hh1, mm1>>

-----------------------------------------------------------------------------
(* Numbers.  Python floats are held as integers in fixed point:            *)
(*   angles in degrees           in units of 1/10000 degree,               *)
(*   longitude and latitude      in units of 1/100 degree,                 *)
(*   sines, cosines, cosOmega0   in units of 1/Scale,                      *)
(*   a Julian date               as [day, sec]: a whole Julian day number  *)
(*                               and the seconds past its start (noon);    *)
(*   a fraction of a day         in seconds.                               *)
(* Every product stays inside 32 bits.                                     *)

Scale == 10^4

Degree == 10^4

Abs(x) == IF x < 0 THEN -x ELSE x

\* constants of the module, in those units
JULIAN_DAYS_2000 == 2451545
JULIAN_DAYS_LEAP == 73
MEAN_M0 == 3575291
MEAN_M1 == 98560028
CENTER_C0 == 19148
CENTER_C1 == 200
CENTER_C2 == 3
PERIHELION_ARGUMENT == 1029372
TIME_0 == 53
TIME_1 == 69
OBLIQUITY == 234400
CORRECTION_REFRACTION == -8330
CORRECTION_ELEVATION == -20760

\* x in radians (1/Scale) for an angle a of 0..45 degrees
radians(a) == ((a \div 10) * 17453) \div 100000

\* sin and cos on 0..45 degrees, by their Taylor series
sin_octant(a) ==
    TheOne({ LET x2 == (x * x) \div Scale
                 t3 == (x2 * x) \div Scale
                 t5 == (t3 * x2) \div Scale
                 t7 == (t5 * x2) \div Scale
             IN  x - (t3 \div 6) + (t5 \div 120) - (t7 \div 5040)
             : x \in {radians(a)} })

cos_octant(a) ==
    TheOne({ LET x4 == (x2 * x2) \div Scale
                 x6 == (x4 * x2) \div Scale
                 x8 == (x6 * x2) \div Scale
             IN  Scale - (x2 \div 2) + (x4 \div 24) - (x6 \div 720) + (x8 \div 40320)
             : x2 \in {(radians(a) * radians(a)) \div Scale} })

sin_quadrant(a) == IF a <= 45 * Degree THEN sin_octant(a) ELSE cos_octant(90 * Degree - a)

\* math.sin(a*pi/180) and math.cos(a*pi/180)
sin(a) ==
    TheOne({ IF r <= 90 * Degree THEN sin_quadrant(r)
             ELSE IF r <= 180 * Degree THEN sin_quadrant(180 * Degree - r)
             ELSE IF r <= 270 * Degree THEN 0 - sin_quadrant(r - 180 * Degree)
             ELSE 0 - sin_quadrant(360 * Degree - r)
             : r \in {a % (360 * Degree)} })

cos(a) == sin(a + 90 * Degree)

RECURSIVE bisect_sqrt(_, _, _)
bisect_sqrt(n, lo, hi) ==
    IF hi - lo <= 1 THEN lo
    ELSE TheOne({ IF mid * mid <= n THEN bisect_sqrt(n, mid, hi) ELSE bisect_sqrt(n, lo, mid)
                  : mid \in {(lo + hi) \div 2} })

\* the whole part of the square root of n
sqrt(n) == TheOne({ bisect_sqrt(v, 0, 46341) : v \in {n} })

RECURSIVE bisect_acos(_, _, _)
bisect_acos(c, lo, hi) ==
    IF hi - lo <= 1 THEN lo
    ELSE TheOne({ IF cos(mid * 100) >= c THEN bisect_acos(c, mid, hi) ELSE bisect_acos(c, lo, mid)
                  : mid \in {(lo + hi) \div 2} })

\* math.acos(c), as an angle of 0..180 degrees in units of 1/100 degree
acos(c) == TheOne({ bisect_acos(v, 0, 18000) : v \in {c} })

\* a Julian date day + sec/86400, with 0 <= sec < 86400
Julian(day, sec) ==
    TheOne({ [day |-> day + (s \div 86400), sec |-> s % 86400] : s \in {sec} })

-----------------------------------------------------------------------------
(* SunTimes *)

\* an object none of whose fields is assigned
Unassigned == [assigned |-> {}, longitude |-> 0, latitude |-> 0, altitude |-> 0]

\* an __init__ that would refuse a latitude beyond the polar circles
SunTimes_init_refusing(longitude, latitude, altitude) ==
    IF ~(-18000 <= longitude /\ longitude <= 18000)
    THEN [exc |-> "ValueError", printed |-> FALSE, self |-> Unassigned]
    ELSE IF ~(-6656 <= latitude /\ latitude <= 6656)
    THEN [exc |-> "ValueError", printed |-> FALSE, self |-> Unassigned]
    ELSE IF altitude < 0
    THEN [exc |-> "ValueError", printed |-> FALSE, self |-> Unassigned]
    ELSE [exc |-> "", printed |-> FALSE,
          self |-> [assigned |-> {"longitude", "latitude", "altitude"},
                    longitude |-> longitude, latitude |-> latitude,
                    altitude |-> altitude]]

\* __init__(longitude, latitude, altitude): the exception raised (or ""),
\* whether the warning is printed, and the fields that end up assigned
SunTimes_init(longitude, latitude, altitude) ==
    IF ~(-18000 <= longitude /\ longitude <= 18000)
    THEN [exc |-> "ValueError", printed |-> FALSE, self |-> Unassigned]
    ELSE IF ~(-9000 <= latitude /\ latitude <= 9000)
    THEN [exc |-> "ValueError", printed |-> FALSE, self |-> Unassigned]
    ELSE IF altitude < 0
    THEN [exc |-> "ValueError", printed |-> ~(-6656 <= latitude /\ latitude <= 6656),
          self |-> Unassigned]
    ELSE [exc |-> "", printed |-> ~(-6656 <= latitude /\ latitude <= 6656),
          self |-> [assigned |-> {"longitude", "latitude", "altitude"},
                    longitude |-> longitude, latitude |-> latitude,
                    altitude |-> altitude]]

\* gcal2jd(y, m, d), summed and moved to noon: the Julian day number
gcal2jd(date) ==
    days_before_year(date[1]) + days_before_month(date[1], date[2]) + date[3] + 1721425

mean_solar_noon(self, date) ==
    TheOne({ Julian(n.day, n.sec - ((self.longitude * 24) \div 10))
             : n \in {Julian(gcal2jd(date) - JULIAN_DAYS_2000, JULIAN_DAYS_LEAP)} })

solar_mean_anomaly(self, date) ==
    TheOne({ (MEAN_M0 + JJ.day * (MEAN_M1 \div 10000)
                 + ((JJ.day * (MEAN_M1 % 10000)) \div 10000)
                 + ((JJ.sec * (MEAN_M1 \div 10000)) \div 86400)) % (360 * Degree)
             : JJ \in {mean_solar_noon(self, date)} })

equation_center(self, date) ==
    TheOne({ ((CENTER_C0 * sin(M)) \div Scale) + ((CENTER_C1 * sin(2 * M)) \div Scale)
             + ((CENTER_C2 * sin(3 * M)) \div Scale)
             : M \in {solar_mean_anomaly(self, date)} })

ecliptic_longitude(self, date) ==
    TheOne({ (M + C + 180 * Degree + PERIHELION_ARGUMENT) % (360 * Degree)
             : M \in {solar_mean_anomaly(self, date)},
               C \in {equation_center(self, date)} })

solar_transit(self, date) ==
    TheOne({ Julian(JULIAN_DAYS_2000 + JJ.day,
                    JJ.sec + ((TIME_0 * 864 * sin(M)) \div 1000000)
                           - ((TIME_1 * 864 * sin(2 * le)) \div 1000000))
             : JJ \in {mean_solar_noon(self, date)},
               M  \in {solar_mean_anomaly(self, date)},
               le \in {ecliptic_longitude(self, date)} })

\* declination_sun returns the angle delta = asin(sin(le)*sin(OBLIQUITY)); its
\* callers use only sin(delta) and cos(delta), which are held instead
declination_sun(self, date) ==
    TheOne({ [sin |-> sn, cos |-> sqrt(Scale * Scale - sn * sn)]
             : sn \in {(sin(ecliptic_longitude(self, date)) * sin(OBLIQUITY)) \div Scale} })

\* the quotient of getOmega0, from sin(elevation), the latitude and delta.
\* cos(latitude)*cos(delta) is never 0 in floating point (cos(pi/2) is a tiny
\* positive number): the divisor is at least the smallest number held
cosOmega0_of(sin_elevation, latitude, delta) ==
    TheOne({ (num * Scale) \div (IF den < 1 THEN 1 ELSE den)
             : num \in {(sin_elevation * Scale - sin(latitude * 100) * delta.sin) \div Scale},
               den \in {(cos(latitude * 100) * delta.cos) \div Scale} })

\* a getOmega0 that would raise the horizon by the corrections instead of
\* lowering it
getOmega0_raised(self, date) ==
    TheOne({ cosOmega0_of(sin(elevation), self.latitude, delta)
             : elevation \in {- CORRECTION_REFRACTION
                    - ((CORRECTION_ELEVATION * sqrt(self.altitude * 10000)) \div 6000)},
               delta \in {declination_sun(self, date)} })

getOmega0(self, date) ==
    TheOne({ cosOmega0_of(sin(elevation), self.latitude, delta)
             : elevation \in {CORRECTION_REFRACTION
                    + ((CORRECTION_ELEVATION * sqrt(self.altitude * 10000)) \div 6000)},
               delta \in {declination_sun(self, date)} })

\* a branch that would take a cosine of exactly 1 or -1 for a polar day
hour_angle_of_strict(cosOmega0) ==
    IF Abs(cosOmega0) < Scale THEN [kind |-> "float", s |-> "", angle |-> acos(cosOmega0)]
    ELSE IF cosOmega0 > Scale THEN [kind |-> "str", s |-> "PN", angle |-> 0]
    ELSE [kind |-> "str", s |-> "PD", angle |-> 0]

\* the branch of hour_angle on cosOmega0: a float (the angle) or a str
hour_angle_of(cosOmega0) ==
    IF Abs(cosOmega0) <= Scale THEN [kind |-> "float", s |-> "", angle |-> acos(cosOmega0)]
    ELSE IF cosOmega0 > Scale THEN [kind |-> "str", s |-> "PN", angle |-> 0]
    ELSE [kind |-> "str", s |-> "PD", angle |-> 0]

hour_angle(self, date) ==
    TheOne({ hour_angle_of(cosOmega0) : cosOmega0 \in {getOmega0(self, date)} })

\* jd2gcal(int(J), J - int(J)): the date, as its ordinal, and the fraction of
\* the day since 0:00
jd2gcal(J) ==
    IF J.sec < 43200 THEN [ord |-> J.day - 1721425, frac |-> J.sec + 43200]
    ELSE [ord |-> J.day + 1 - 1721425, frac |-> J.sec - 43200]

\* omega0 is held in degrees, so omega0*180/pi is omega0
J_rise_set_greg(self, date) ==
    TheOne({ IF ~isinstance_str(omega0)
             THEN TheOne({ [last_is_str |-> FALSE, J_rise_greg |-> jd2gcal(J_rise),
                            J_set_greg |-> jd2gcal(J_set), omega0 |-> ""]
                           : J_rise \in {Julian(J_transit.day,
                                            J_transit.sec - ((omega0.angle * 24) \div 10))},
                             J_set \in {Julian(J_transit.day,
                                            J_transit.sec + ((omega0.angle * 24) \div 10))} })
             ELSE [last_is_str |-> TRUE, J_rise_greg |-> <<>>, J_set_greg |-> <<>>,
                   omega0 |-> omega0.s]
             : J_transit \in {solar_transit(self, date)},
               omega0 \in {hour_angle(self, date)} })

\* Python's round(n/60) for whole n >= 0: to the nearest, a half to the even
round60(n) ==
    IF n % 60 > 30 \/ (n % 60 = 30 /\ (n \div 60) % 2 = 1) THEN (n \div 60) + 1
    ELSE n \div 60

\* what round(n/60) can be in floating point: f*60*24 - h*60 carries a
\* rounding error, so at a half its value falls on either side
round_outcomes(n) ==
    IF n % 60 = 30 THEN {n \div 60, (n \div 60) + 1} ELSE {round60(n)}

\* branches that would carry the last minute into hour 24
round_fractionDay_toHM_rolling(h, m) ==
    IF m < 60 THEN <<h, m>>
    ELSE <<h + 1, 0>>

\* the branches of round_fractionDay_toHM on m
round_fractionDay_toHM_of(h, m) ==
    IF m < 60 THEN <<h, m>>
    ELSE IF h + 1 = 24 THEN <<23, 59>>
    ELSE <<h + 1, 0>>

\* f is a fraction of a day, in seconds
round_fractionDay_toHM(f) ==
    round_fractionDay_toHM_of(f \div 3600, round60(f - (f \div 3600) * 3600))

riseutc(self, date) ==
    TheOne({ IF ~j_greg.last_is_str
             THEN LET hms == round_fractionDay_toHM(j_greg.J_rise_greg.frac)
                  IN  DatetimeOrd(j_greg.J_rise_greg.ord, hms[1], hms[2])
             ELSE Str(j_greg.omega0)
             : j_greg \in {J_rise_set_greg(self, date)} })

\* a setutc that would give the last minute of the date for a sun that
\* does not set
setutc_end_of_day(self, date) ==
    TheOne({ IF ~j_greg.last_is_str
             THEN LET hms == round_fractionDay_toHM(j_greg.J_set_greg.frac)
                  IN  DatetimeOrd(j_greg.J_set_greg.ord, hms[1], hms[2])
             ELSE IF j_greg.omega0 = "PD"
             THEN DatetimeOrd(gcal2jd(date) - 1721425, 23, 59)
             ELSE Str(j_greg.omega0)
             : j_greg \in {J_rise_set_greg(self, date)} })

setutc(self, date) ==
    TheOne({ IF ~j_greg.last_is_str
             THEN LET hms == round_fractionDay_toHM(j_greg.J_set_greg.frac)
                  IN  DatetimeOrd(j_greg.J_set_greg.ord, hms[1], hms[2])
             ELSE Str(j_greg.omega0)
             : j_greg \in {J_rise_set_greg(self, date)} })

\* the branches of durationdelta on what riseutc and setutc returned
durationdelta_of(sunrise, sunset) ==
    IF ~isinstance_str(sunrise) /\ ~isinstance_str(sunset)
    THEN timedelta(sunset, sunrise)
    ELSE IF isinstance_str(sunrise) /\ isinstance_str(sunset)
    THEN Str("Not calculable : " \o sunrise.s)
    ELSE Str("Not calculable : changement jour/nuit polaire")

durationdelta(self, date) ==
    TheOne({ durationdelta_of(sunrise, sunset)
             : sunrise \in {riseutc(self, date)}, sunset \in {setutc(self, date)} })

durationtuple_of(delta) ==
    IF ~isinstance_str(delta)
    THEN [kind |-> "tuple", s |-> "", hm |-> round_fractionDay_toHM(total_seconds(delta))]
    ELSE [kind |-> "str", s |-> delta.s, hm |-> <<>>]

durationtuple(self, date) ==
    TheOne({ durationtuple_of(delta) : delta \in {durationdelta(self, date)} })

-----------------------------------------------------------------------------
(* The place as the aggregator sees it.  SunFiles calls place.riseutc(d)   *)
(* and place.setutc(d) once per day; each call returns "PD", "PN" or a     *)
(* datetime.  sky fixes those returns for a year: the first days (prefix)  *)
(* and the last days (suffix) one by one, every day between them alike     *)
(* (stretch); on a day with a sunrise the sun rises riseMin minutes after  *)
(* 0:00 UTC of that date (before it when negative) and sets span minutes   *)
(* later.                                                                  *)

MaxBlock == 3

Kinds == {"PD", "PN", "RS"}

Blocks == UNION {[1..n -> Kinds] : n \in 0..MaxBlock}

\* a leap year and the year after it
Years == {2020, 2021}

\* years around the turn of a century, where the leap-year rules differ
Centuries == {1600, 1700, 1900, 2000, 2100, 2400}

MaxAround == 4

CalYears == UNION {(c - MaxAround)..(c + MaxAround) : c \in Centuries}

\* (riseMin, span): a day within one UTC date, a sunrise on the date before,
\* a sunset on the date after, a sun that sets the minute it rises, and a
\* sun up for the full 24 hours or one minute less
Shapes == {<<360, 725>>, <<-45, 600>>, <<1000, 1000>>, <<700, 0>>, <<0, 1440>>, <<1, 1439>>}

kind_of_day(sk, n, i) ==
    IF i < Len(sk.prefix) THEN sk.prefix[i + 1]
    ELSE IF i >= n - Len(sk.suffix) THEN sk.suffix[i - (n - Len(sk.suffix)) + 1]
    ELSE sk.stretch

\* the datetime `minutes` after 0:00 of day i (0-based) of year y; it may
\* fall on the date before or on a date after
datetime_at(y, i, minutes) ==
    DatetimeOrd(days_before_year(y) + i + 1 + (minutes \div 1440),
                (minutes % 1440) \div 60, (minutes % 1440) % 60)

\* place.riseutc(d) for day i of year y
sky_riseutc(sk, y, i) ==
    LET k == kind_of_day(sk, len_year(y), i)
    IN  IF k = "RS" THEN datetime_at(y, i, sk.riseMin) ELSE Str(k)

\* place.setutc(d) for day i of year y
sky_setutc(sk, y, i) ==
    LET k == kind_of_day(sk, len_year(y), i)
    IN  IF k = "RS" THEN datetime_at(y, i, sk.riseMin + sk.span) ELSE Str(k)

-----------------------------------------------------------------------------
(* SunFiles *)

\* whether the place is a table rather than a SunTimes object
IsSky(pl) == "stretch" \in DOMAIN pl

rise_days_year_utc(y, pl) ==
    TheOne({ IF IsSky(pl) THEN [k \in 1..Len(days) |-> sky_riseutc(pl, y, k - 1)]
             ELSE [k \in 1..Len(days) |-> riseutc(pl, days[k])]
             : days \in {days_year(y)} })

set_days_year_utc(y, pl) ==
    TheOne({ IF IsSky(pl) THEN [k \in 1..Len(days) |-> sky_setutc(pl, y, k - 1)]
             ELSE [k \in 1..Len(days) |-> setutc(pl, days[k])]
             : days \in {days_year(y)} })

\* the lists duration_days_year builds: [year, M, D, marker] is ListStr,
\* [year, M, D, hh, mm] is ListHM
ListStr(y, M, D, s) == [y |-> y, mo |-> M, d |-> D, s |-> s, hhmm |-> <<>>]

ListHM(y, M, D, hh, mm) == [y |-> y, mo |-> M, d |-> D, s |-> "", hhmm |-> <<hh, mm>>]

\* Python's `s in l` for a marker s and one of those lists: the integers of
\* the list never equal a string
In(s, l) == l.s = s

\* a loop body that would take a marker for a span of no time
duration_day_unmarked(y, tuple, rise, set) ==
    IF isinstance_str(rise) \/ isinstance_str(set) THEN ListHM(y, tuple[2], tuple[3], 0, 0)
    ELSE LET seconds == timedelta(set, rise).seconds
             hhmm    == seconds_to_hhmm(seconds)
         IN  ListHM(y, tuple[2], tuple[3], hhmm[1], hhmm[2])

\* the body of the loop of duration_days_year for one day
duration_day(y, tuple, rise, set) ==
    IF isinstance_str(rise) THEN ListStr(y, tuple[2], tuple[3], rise.s)
    ELSE IF isinstance_str(set) THEN ListStr(y, tuple[2], tuple[3], set.s)
    ELSE LET seconds == timedelta(set, rise).seconds
             hhmm    == seconds_to_hhmm(seconds)
         IN  ListHM(y, tuple[2], tuple[3], hhmm[1], hhmm[2])

duration_days_year(y, pl) ==
    TheOne({ [k \in 1..Len(tuples) |-> duration_day(y, tuples[k], rise_U[k], set_U[k])]
             : rise_U \in {rise_days_year_utc(y, pl)},
               set_U \in {set_days_year_utc(y, pl)},
               tuples \in {days_year(y)} })

PDPN_length(y, pl) ==
    TheOne({ LET listPN == SelectSeq(duration_days, LAMBDA d : In("PN", d))
                 listPD == SelectSeq(duration_days, LAMBDA d : In("PD", d))
                 durationPN == Len(listPN)
                 durationPD == Len(listPD)
             IN  <<durationPN, durationPD>>
             : duration_days \in {duration_days_year(y, pl)} })

\* one pass of a loop of PDPN_dates for marker s: whether index i is appended
appended(PDPN_list, s, i) ==
    LET n == Len(PDPN_list)
    IN  IF i = 0 THEN In(s, PDPN_list[i + 1])
        ELSE IF 0 < i /\ i < n - 1
        THEN IF In(s, PDPN_list[i + 1]) /\ ~In(s, PDPN_list[i + 2]) THEN TRUE
             ELSE IF In(s, PDPN_list[i + 1]) /\ ~In(s, PDPN_list[i]) THEN TRUE
             ELSE FALSE
        ELSE In(s, PDPN_list[i + 1])

\* a loop of PDPN_dates for marker s: the indices appended, in the order of
\* the loop
index_loop(PDPN_list, s) ==
    SelectSeq([k \in 1..Len(PDPN_list) |-> k - 1],
              LAMBDA i : appended(PDPN_list, s, i))

\* a local of PDPN_dates: not assigned yet, a string, or a (month, day) tuple
Unbound == [kind |-> "unbound", s |-> "", md |-> <<>>]

StrVal(s) == [kind |-> "str", s |-> s, md |-> <<>>]

Tuple(m, d) == [kind |-> "tuple", s |-> "", md |-> <<m, d>>]

\* a chain that would fall back on "No Polar Night" for any other count
PN_policy_guessing(PDPN_list, PN_index) ==
    IF Len(PN_index) = 2
    THEN [begin |-> Tuple(PDPN_list[PN_index[1] + 1].mo, PDPN_list[PN_index[1] + 1].d),
          end   |-> Tuple(PDPN_list[PN_index[2] + 1].mo, PDPN_list[PN_index[2] + 1].d),
          raised |-> ""]
    ELSE IF Len(PN_index) = 4
    THEN [begin |-> Tuple(PDPN_list[PN_index[3] + 1].mo, PDPN_list[PN_index[3] + 1].d),
          end   |-> Tuple(PDPN_list[PN_index[2] + 1].mo, PDPN_list[PN_index[2] + 1].d),
          raised |-> ""]
    ELSE [begin |-> StrVal("No Polar Night"), end |-> StrVal("No Polar Night"),
          raised |-> ""]

\* a chain that would begin the night the day after the third index
PN_policy_day_after(PDPN_list, PN_index) ==
    IF Len(PN_index) = 0
    THEN [begin |-> StrVal("No Polar Night"), end |-> StrVal("No Polar Night"),
          raised |-> ""]
    ELSE IF Len(PN_index) = 2
    THEN [begin |-> Tuple(PDPN_list[PN_index[1] + 1].mo, PDPN_list[PN_index[1] + 1].d),
          end   |-> Tuple(PDPN_list[PN_index[2] + 1].mo, PDPN_list[PN_index[2] + 1].d),
          raised |-> ""]
    ELSE IF Len(PN_index) = 4
    THEN [begin |-> Tuple(PDPN_list[PN_index[3] + 2].mo, PDPN_list[PN_index[3] + 2].d),
          end   |-> Tuple(PDPN_list[PN_index[2] + 1].mo, PDPN_list[PN_index[2] + 1].d),
          raised |-> ""]
    ELSE [begin |-> Unbound, end |-> Unbound, raised |-> ""]

\* the if/elif chain on len(PN_index): the locals PN_begin and PN_end
PN_policy(PDPN_list, PN_index) ==
    IF Len(PN_index) = 0
    THEN [begin |-> StrVal("No Polar Night"), end |-> StrVal("No Polar Night"),
          raised |-> ""]
    ELSE IF Len(PN_index) = 2
    THEN [begin |-> Tuple(PDPN_list[PN_index[1] + 1].mo, PDPN_list[PN_index[1] + 1].d),
          end   |-> Tuple(PDPN_list[PN_index[2] + 1].mo, PDPN_list[PN_index[2] + 1].d),
          raised |-> ""]
    ELSE IF Len(PN_index) = 4
    THEN [begin |-> Tuple(PDPN_list[PN_index[3] + 1].mo, PDPN_list[PN_index[3] + 1].d),
          end   |-> Tuple(PDPN_list[PN_index[2] + 1].mo, PDPN_list[PN_index[2] + 1].d),
          raised |-> ""]
    ELSE [begin |-> Unbound, end |-> Unbound, raised |-> ""]

\* a chain that would end the polar day on the day after its last day (on
\* the last day of the year when there is no day after)
PD_policy_day_after(PDPN_list, PD_index) ==
    IF Len(PD_index) = 0
    THEN [begin |-> StrVal("No Polar Day"), end |-> StrVal("No Polar Day"),
          raised |-> ""]
    ELSE IF Len(PD_index) = 2
    THEN TheOne({ [begin |-> Tuple(PDPN_list[PD_index[1] + 1].mo, PDPN_list[PD_index[1] + 1].d),
                   end   |-> Tuple(PDPN_list[after].mo, PDPN_list[after].d),
                   raised |-> ""]
                  : after \in {IF PD_index[2] + 2 <= Len(PDPN_list)
                               THEN PD_index[2] + 2 ELSE PD_index[2] + 1} })
    ELSE IF Len(PD_index) = 4
    THEN [begin |-> Unbound, end |-> Unbound, raised |-> "NameError"]
    ELSE [begin |-> Unbound, end |-> Unbound, raised |-> ""]

\* the if/elif chain on len(PD_index): the locals PD_begin and PD_end.  The
\* branch for 4 reads PDN_begin_day, a name bound nowhere: NameError, with
\* PD_begin and PD_end not assigned
PD_policy(PDPN_list, PD_index) ==
    IF Len(PD_index) = 0
    THEN [begin |-> StrVal("No Polar Day"), end |-> StrVal("No Polar Day"),
          raised |-> ""]
    ELSE IF Len(PD_index) = 2
    THEN [begin |-> Tuple(PDPN_list[PD_index[1] + 1].mo, PDPN_list[PD_index[1] + 1].d),
          end   |-> Tuple(PDPN_list[PD_index[2] + 1].mo, PDPN_list[PD_index[2] + 1].d),
          raised |-> ""]
    ELSE IF Len(PD_index) = 4
    THEN [begin |-> Unbound, end |-> Unbound, raised |-> "NameError"]
    ELSE [begin |-> Unbound, end |-> Unbound, raised |-> ""]

\* PDPN_dates: the outcome ("return" with the list returned, or "raise" with
\* the exception), and the locals as the call left them.  The return
\* statement (PDPN_return) reads the four locals; reading one that was never
\* assigned raises UnboundLocalError
PDPN_return(PD_index, PN_index, PN, PD) ==
    LET frame == [PD_index |-> PD_index, PN_index |-> PN_index,
                  PN_begin |-> PN.begin, PN_end |-> PN.end,
                  PD_begin |-> PD.begin, PD_end |-> PD.end]
    IN  IF PD.raised # ""
        THEN [outcome |-> "raise", exc |-> PD.raised, value |-> <<>>, frame |-> frame]
        ELSE IF Unbound \in {PD.begin, PD.end, PN.begin, PN.end}
        THEN [outcome |-> "raise", exc |-> "UnboundLocalError", value |-> <<>>,
              frame |-> frame]
        ELSE [outcome |-> "return", exc |-> "",
              value |-> <<PD.begin, PD.end, PN.begin, PN.end>>, frame |-> frame]

PDPN_dates(y, pl) ==
    TheOne({ TheOne({ TheOne({ PDPN_return(PD_index, PN_index, PN, PD)
                               : PN \in {PN_policy(PDPN_list, PN_index)},
                                 PD \in {PD_policy(PDPN_list, PD_index)} })
                      : PD_index \in {index_loop(PDPN_list, "PD")},
                        PN_index \in {index_loop(PDPN_list, "PN")} })
             : PDPN_list \in {duration_days_year(y, pl)} })

-----------------------------------------------------------------------------
(* The aggregator as a state machine: a SunFiles object for one place and  *)
(* one year, and one call of one of its methods.  No method changes the    *)
(* object, so a second call would return what the first call returned.     *)

\* every way to tell at most MaxBlock days one by one, with one timetable
PatternSkies ==
    {sk \in [prefix : Blocks, stretch : Kinds, suffix : Blocks,
             riseMin : {360}, span : {725}] :
        Len(sk.prefix) + Len(sk.suffix) <= MaxBlock}

\* every timetable, with at most one day told apart at each end of the year
ShapeSkies ==
    {sk \in [prefix : Blocks, stretch : Kinds, suffix : Blocks,
             riseMin : {sh[1] : sh \in Shapes}, span : {sh[2] : sh \in Shapes}] :
        /\ <<sk.riseMin, sk.span>> \in Shapes
        /\ Len(sk.prefix) <= 1
        /\ Len(sk.suffix) <= 1}

\* a year of ordinary days
PlainSky == [prefix |-> <<>>, stretch |-> "RS", suffix |-> <<>>, riseMin |-> 360, span |-> 725]

\* no SunTimes object yet
NoPlace == Unassigned

NoCall == [outcome |-> "none", exc |-> "", value |-> <<>>, frame |-> <<>>]

Return(v) == [outcome |-> "return", exc |-> "", value |-> v, frame |-> <<>>]

LastDay(y) == len_year(y) - 1

\* SunFiles(place, year) can be built and asked: the place is there
Ready ==
    IF IsSky(place) THEN call = "none"
    ELSE call = "__init__" /\ place.assigned # {}

\* SunFiles.__init__(place, year)
Init ==
    /\ \/ year \in Years /\ place \in PatternSkies \cup ShapeSkies
       \/ year \in CalYears /\ place = PlainSky
    /\ arg = <<>>
    /\ call = "none"
    /\ ret = NoCall

CallDaysYear ==
    /\ Ready
    /\ call' = "days_year"
    /\ ret' = Return(days_year(year))
    /\ UNCHANGED <<year, place, arg>>

CallDurationDaysYear ==
    /\ Ready
    /\ call' = "duration_days_year"
    /\ ret' = Return(duration_days_year(year, place))
    /\ UNCHANGED <<year, place, arg>>

CallPDPNLength ==
    /\ Ready
    /\ call' = "PDPN_length"
    /\ ret' = Return(PDPN_length(year, place))
    /\ UNCHANGED <<year, place, arg>>

CallPDPNDates ==
    /\ Ready
    /\ call' = "PDPN_dates"
    /\ ret' = PDPN_dates(year, place)
    /\ UNCHANGED <<year, place, arg>>

Next ==
    \/ CallDaysYear
    \/ CallDurationDaysYear
    \/ CallPDPNLength
    \/ CallPDPNDates

Spec == Init /\ [][Next]_vars

-----------------------------------------------------------------------------
(* The calculator as a state machine: SunTimes(longitude, latitude,        *)
(* altitude), and then one call of one of its methods for one date.        *)

Longitudes == {-18001, -18000, 235, 18001}

Latitudes == {-9001, -9000, -7822, -7000, -6656, 0, 4885, 6574, 6656, 7822, 9000, 9001}

Altitudes == {-1, 0, 4000}

DateStep == 4

\* one day in DateStep of 2021, and every day of the weeks of the solstices
SunDates ==
    {days_year(2021)[k] : k \in {j \in 1..365 : j % DateStep = 1}
                                \cup (160..175) \cup (350..358)}

InitSun ==
    /\ year = 2021
    /\ place = NoPlace
    /\ arg = <<>>
    /\ call = "none"
    /\ ret = NoCall

Construct ==
    /\ call = "none"
    /\ \E longitude \in Longitudes, latitude \in Latitudes, altitude \in Altitudes :
          LET r == SunTimes_init(longitude, latitude, altitude)
          IN  /\ place' = r.self
              /\ ret' = [outcome |-> IF r.exc = "" THEN "return" ELSE "raise",
                         exc |-> r.exc, value |-> <<>>,
                         frame |-> [longitude |-> longitude, latitude |-> latitude,
                                    altitude |-> altitude, printed |-> r.printed]]
    /\ call' = "__init__"
    /\ UNCHANGED <<year, arg>>

\* a constructed object can be asked
Built == call = "__init__" /\ place.assigned # {}

CallGetOmega0 ==
    /\ Built
    /\ \E d \in SunDates :
          /\ arg' = d
          /\ ret' = Return(getOmega0(place, d))
    /\ call' = "getOmega0"
    /\ UNCHANGED <<year, place>>

CallHourAngle ==
    /\ Built
    /\ \E d \in SunDates :
          /\ arg' = d
          /\ ret' = Return(hour_angle(place, d))
    /\ call' = "hour_angle"
    /\ UNCHANGED <<year, place>>

CallJRiseSetGreg ==
    /\ Built
    /\ \E d \in SunDates :
          /\ arg' = d
          /\ ret' = Return(J_rise_set_greg(place, d))
    /\ call' = "J_rise_set_greg"
    /\ UNCHANGED <<year, place>>

CallRiseUtc ==
    /\ Built
    /\ \E d \in SunDates :
          /\ arg' = d
          /\ ret' = Return(riseutc(place, d))
    /\ call' = "riseutc"
    /\ UNCHANGED <<year, place>>

CallSetUtc ==
    /\ Built
    /\ \E d \in SunDates :
          /\ arg' = d
          /\ ret' = Return(setutc(place, d))
    /\ call' = "setutc"
    /\ UNCHANGED <<year, place>>

CallDurationDelta ==
    /\ Built
    /\ \E d \in SunDates :
          /\ arg' = d
          /\ ret' = Return(durationdelta(place, d))
    /\ call' = "durationdelta"
    /\ UNCHANGED <<year, place>>

CallDurationTuple ==
    /\ Built
    /\ \E d \in SunDates :
          /\ arg' = d
          /\ ret' = Return(durationtuple(place, d))
    /\ call' = "durationtuple"
    /\ UNCHANGED <<year, place>>

NextSun ==
    \/ Construct
    \/ CallGetOmega0
    \/ CallHourAngle
    \/ CallJRiseSetGreg
    \/ CallRiseUtc
    \/ CallSetUtc
    \/ CallDurationDelta
    \/ CallDurationTuple
    \/ CallDaysYear
    \/ CallDurationDaysYear
    \/ CallPDPNLength
    \/ CallPDPNDates

SpecSun == InitSun /\ [][NextSun]_vars

-----------------------------------------------------------------------------
(* The two rounding functions as a state machine: one call of one of them  *)
(* with one whole number of seconds.                                       *)

\* the seconds of a day
DAY_SECONDS == 86400

InitFn ==
    /\ year = 0
    /\ place = NoPlace
    /\ arg = <<>>
    /\ call = "none"
    /\ ret = NoCall

CallSecondsToHhmm ==
    /\ call = "none"
    /\ \E seconds \in 0..DAY_SECONDS :
          /\ arg' = seconds
          /\ ret' = Return(seconds_to_hhmm(seconds))
    /\ call' = "seconds_to_hhmm"
    /\ UNCHANGED <<year, place>>

\* f = seconds/86400 with 0 <= f < 1
CallRoundFractionDayToHM ==
    /\ call = "none"
    /\ \E seconds \in 0..(DAY_SECONDS - 1) :
          \E m \in round_outcomes(seconds - (seconds \div 3600) * 3600) :
             /\ arg' = seconds
             /\ ret' = Return(round_fractionDay_toHM_of(seconds \div 3600, m))
    /\ call' = "round_fractionDay_toHM"
    /\ UNCHANGED <<year, place>>

NextFn ==
    \/ CallSecondsToHhmm
    \/ CallRoundFractionDayToHM

SpecFn == InitFn /\ [][NextFn]_vars

-----------------------------------------------------------------------------
(* What the claims speak of, read off the state *)

LastIndex == LastDay(year)

\* the indices of the days of the year on which the place returns marker s
MarkerDays(s) ==
    IF IsSky(place) THEN {i \in 0..LastIndex : kind_of_day(place, len_year(year), i) = s}
    ELSE {}

\* the first and the last days of the runs of a set of days
RunStarts(S) == {i \in S : (i - 1) \notin S}

RunEnds(S) == {i \in S : (i + 1) \notin S}

OneRun(S) == Cardinality(RunEnds(S)) = 1

\* one run from index 0 and another one to the last index
SplitRuns(S) == Cardinality(RunEnds(S)) = 2 /\ 0 \in S /\ LastIndex \in S

\* the (month, day) of the day of index i
DateOf(i) == Tuple(days_year(year)[i + 1][2], days_year(year)[i + 1][3])

Returned == call = "PDPN_dates" /\ ret.outcome = "return"

\* a SunTimes object was constructed
Constructed == ~IsSky(place) /\ place.assigned # {}

InsideCircles == Constructed /\ -6656 <= place.latitude /\ place.latitude <= 6656

-----------------------------------------------------------------------------
(* C1: a single run of PolarNight days that touches neither end of the     *)
(* year (and no PolarDay day at all) gives exactly 2 PolarNight boundary   *)
(* indices, and PDPN_dates returns PN_begin = the run's first day and      *)
(* PN_end = the run's last day.  Stated as claimed, for a run of any       *)
(* length from one day on.                                                 *)
C1_SingleRunReported ==
    (/\ call = "PDPN_dates"
     /\ OneRun(MarkerDays("PN"))
     /\ 0 \notin MarkerDays("PN")
     /\ LastIndex \notin MarkerDays("PN")
     /\ MarkerDays("PD") = {})
    => /\ Len(ret.frame.PN_index) = 2
       /\ ret.outcome = "return"
       /\ ret.value[3] = DateOf(TheOne(RunStarts(MarkerDays("PN"))))
       /\ ret.value[4] = DateOf(TheOne(RunEnds(MarkerDays("PN"))))

-----------------------------------------------------------------------------
(* C2 as claimed: for a place with |latitude| <= 66.56, the cosine         *)
(* getOmega0 returns lies in [-1, 1] and hour_angle returns neither "PD"   *)
(* nor "PN".                                                               *)
C2_NeverPolarInsideCircles ==
    InsideCircles
    => /\ call = "getOmega0" => (-Scale <= ret.value /\ ret.value <= Scale)
       /\ call = "hour_angle" => ret.value.kind = "float"

(* C2 as amended: for a place with |latitude| <= 66.56 and an altitude of  *)
(* 0 to 4000 m, the cosine getOmega0 returns never exceeds 1 and           *)
(* hour_angle never returns "PN"; it can be below -1, and hour_angle then  *)
(* returns "PD".                                                           *)
C2_NeverPolarNightInsideCircles ==
    InsideCircles
    => /\ call = "getOmega0" => ret.value <= Scale
       /\ call = "hour_angle" =>
            /\ ret.value.s # "PN"
            /\ ret.value.s = "PD" <=> getOmega0(place, arg) < -Scale

C2_Witness ==
    /\ InsideCircles
    /\ call = "hour_angle"
    /\ place.latitude = 6656
    /\ ret.value.s = "PD"

-----------------------------------------------------------------------------
(* C3: the list days_year returns and the list duration_days_year returns  *)
(* hold one record per calendar day of the year, from January 1 to         *)
(* December 31 in calendar order, and their length is 366 exactly when     *)
(* the year is divisible by 4 and not by 100 unless also by 400, and 365   *)
(* otherwise.                                                              *)
C3_Leap(y) == y % 4 = 0 /\ (y % 100 # 0 \/ y % 400 = 0)

C3_MonthDays(y, m) ==
    IF m = 2 THEN (IF C3_Leap(y) THEN 29 ELSE 28)
    ELSE IF m \in {4, 6, 9, 11} THEN 30 ELSE 31

C3_DayAfter(d) ==
    IF d[3] < C3_MonthDays(d[1], d[2]) THEN <<d[1], d[2], d[3] + 1>>
    ELSE IF d[2] < 12 THEN <<d[1], d[2] + 1, 1>>
    ELSE <<d[1] + 1, 1, 1>>

C3_DateOfRecord(r) == IF call = "days_year" THEN r ELSE <<r.y, r.mo, r.d>>

-----------------------------------------------------------------------------
(* C4: what hour_angle yields is decided by the cosine alone: "PN" when it *)
(* is above 1, "PD" when it is below -1, and the angle acos(cosine)        *)
(* otherwise, at exactly 1 and exactly -1 too; J_rise_set_greg, riseutc    *)
(* and setutc then give a rise and a set exactly when the cosine is in     *)
(* [-1, 1], and the same marker otherwise.                                 *)
C4_Expected(c) ==
    IF c > Scale THEN "PN" ELSE IF c < -Scale THEN "PD" ELSE ""

C4_OutcomeByCosine ==
    (Constructed /\ call \in {"hour_angle", "J_rise_set_greg", "riseutc", "setutc"})
    => LET c == getOmega0(place, arg)
       IN  /\ call = "hour_angle" =>
                /\ ret.value.s = C4_Expected(c)
                /\ (ret.value.kind = "float") <=> (C4_Expected(c) = "")
                /\ (ret.value.kind = "str") <=> (C4_Expected(c) # "")
                /\ C4_Expected(c) = "" => ret.value.angle = acos(c)
           /\ call = "J_rise_set_greg" =>
                /\ ret.value.last_is_str <=> (C4_Expected(c) # "")
                /\ ret.value.omega0 = C4_Expected(c)
                /\ C4_Expected(c) = "" =>
                      (ret.value.J_rise_greg # <<>> /\ ret.value.J_set_greg # <<>>)
           /\ call \in {"riseutc", "setutc"} =>
                /\ isinstance_str(ret.value) <=> (C4_Expected(c) # "")
                /\ ret.value.s = C4_Expected(c)

C4_Witness ==
    /\ Constructed
    /\ call = "hour_angle"
    /\ getOmega0(place, arg) = -Scale
    /\ ret.value.kind = "float"
    /\ ret.value.angle = acos(-Scale)

-----------------------------------------------------------------------------
(* C5: SunTimes(longitude, latitude, altitude) raises, with none of the    *)
(* three fields assigned, exactly when the longitude is outside            *)
(* [-180, 180], the latitude outside [-90, 90] or the altitude negative;   *)
(* otherwise the three values are stored as given, and a latitude beyond   *)
(* the polar circles only prints a warning.                                *)
C5_OutOfRange(a) ==
    \/ a.longitude < -18000 \/ a.longitude > 18000
    \/ a.latitude < -9000 \/ a.latitude > 9000
    \/ a.altitude < 0

C5_RejectsExactlyOutOfRange ==
    call = "__init__"
    => /\ (ret.outcome = "raise") <=> C5_OutOfRange(ret.frame)
       /\ C5_OutOfRange(ret.frame) =>
             (ret.exc = "ValueError" /\ place.assigned = {})
       /\ ~C5_OutOfRange(ret.frame) =>
             /\ ret.outcome = "return"
             /\ place.assigned = {"longitude", "latitude", "altitude"}
             /\ place.longitude = ret.frame.longitude
             /\ place.latitude = ret.frame.latitude
             /\ place.altitude = ret.frame.altitude
             /\ ret.frame.printed <=>
                   (ret.frame.latitude < -6656 \/ ret.frame.latitude > 6656)

C5_Witness ==
    /\ call = "__init__"
    /\ ret.outcome = "return"
    /\ ret.frame.latitude = 7822
    /\ ret.frame.printed
    /\ place.latitude = 7822

-----------------------------------------------------------------------------
(* C6: when the number of PolarNight boundary indices, or of PolarDay      *)
(* boundary indices, is not 0, 2 or 4, PDPN_dates raises and returns no    *)
(* list.                                                                   *)
BadCount == Len(ret.frame.PN_index) \notin {0, 2, 4} \/ Len(ret.frame.PD_index) \notin {0, 2, 4}

C6_BadCountRaises ==
    (call = "PDPN_dates" /\ BadCount) => (ret.outcome = "raise" /\ ret.value = <<>>)

C6_Witness ==
    /\ call = "PDPN_dates"
    /\ Len(ret.frame.PN_index) = 3
    /\ Len(ret.frame.PD_index) = 0
    /\ ret.outcome = "raise"

-----------------------------------------------------------------------------
(* C7 as claimed: with 4 PolarNight boundary indices b1 < b2 < b3 < b4,    *)
(* the PN_begin PDPN_dates returns is the day after b3 and the PN_end it   *)
(* returns is the day b2.                                                  *)
C7_BeginAfterThird ==
    (Returned /\ Len(ret.frame.PN_index) = 4)
    => /\ ret.value[3] = DateOf(ret.frame.PN_index[3] + 1)
       /\ ret.value[4] = DateOf(ret.frame.PN_index[2])

(* C7 as amended: with 4 PolarNight boundary indices b1 < b2 < b3 < b4,    *)
(* PDPN_dates sets PN_begin to the day b3 itself and PN_end to the day b2, *)
(* and these are the values it returns when it returns.                    *)
C7_BeginIsThird ==
    (call = "PDPN_dates" /\ Len(ret.frame.PN_index) = 4)
    => /\ ret.frame.PN_index[1] < ret.frame.PN_index[2]
       /\ ret.frame.PN_index[2] < ret.frame.PN_index[3]
       /\ ret.frame.PN_index[3] < ret.frame.PN_index[4]
       /\ ret.frame.PN_begin = DateOf(ret.frame.PN_index[3])
       /\ ret.frame.PN_end = DateOf(ret.frame.PN_index[2])
       /\ (ret.outcome = "return"
             => ret.value[3] = ret.frame.PN_begin /\ ret.value[4] = ret.frame.PN_end)

C7_Witness ==
    /\ Returned
    /\ Len(ret.frame.PN_index) = 4
    /\ ret.value[3] = DateOf(ret.frame.PN_index[3])
    /\ ret.frame.PN_index[3] > ret.frame.PN_index[2] + 1

-----------------------------------------------------------------------------
(* C8 as claimed: a marker whose days are one run from index 0 and another *)
(* run to the last index (each of one day or more) gives exactly 4         *)
(* boundary indices; a marker whose days are a single run gives exactly 2. *)
C8_index(s) == IF s = "PD" THEN ret.frame.PD_index ELSE ret.frame.PN_index

C8_SplitFourSingleTwo ==
    (call = "PDPN_dates" /\ IsSky(place))
    => \A s \in {"PD", "PN"} :
          /\ SplitRuns(MarkerDays(s)) => Len(C8_index(s)) = 4
          /\ OneRun(MarkerDays(s)) => Len(C8_index(s)) = 2

-----------------------------------------------------------------------------
(* C9 as claimed: on every day whose sunrise and sunset are both           *)
(* datetimes, the record of duration_days_year holds set - rise in hours   *)
(* and minutes, whatever the span: the two may be on different UTC dates,  *)
(* and the span may be a full 24 hours.                                    *)
C9_HoursMinutes(rise, set) ==
    LET t == total_seconds(timedelta(set, rise))
    IN  <<t \div 3600, (t % 3600) \div 60>>

C9_DurationIsSetMinusRise ==
    call = "duration_days_year"
    => LET rise == rise_days_year_utc(year, place)
           set  == set_days_year_utc(year, place)
       IN  \A k \in 1..Len(ret.value) :
              (~isinstance_str(rise[k]) /\ ~isinstance_str(set[k]))
              => ret.value[k].hhmm = C9_HoursMinutes(rise[k], set[k])

-----------------------------------------------------------------------------
(* C10: on every day on which riseutc or setutc returns a marker,          *)
(* durationdelta returns "Not calculable : " followed by that marker, and  *)
(* the record of duration_days_year is [year, month, day, marker], with no *)
(* hours and minutes.                                                      *)
C10_Marker(rise, set) == IF isinstance_str(rise) THEN rise.s ELSE set.s

C10_MarkerDayNotCalculable ==
    /\ (Constructed /\ call = "durationdelta") =>
          LET rise == riseutc(place, arg)
              set  == setutc(place, arg)
          IN  (isinstance_str(rise) \/ isinstance_str(set))
              => /\ C10_Marker(rise, set) \in {"PD", "PN"}
                 /\ ret.value = Str("Not calculable : " \o C10_Marker(rise, set))
    /\ call = "duration_days_year" =>
          LET rise == rise_days_year_utc(year, place)
              set  == set_days_year_utc(year, place)
              days == days_year(year)
          IN  \A k \in 1..Len(ret.value) :
                 (isinstance_str(rise[k]) \/ isinstance_str(set[k]))
                 => /\ C10_Marker(rise[k], set[k]) \in {"PD", "PN"}
                    /\ ret.value[k] = ListStr(year, days[k][2], days[k][3],
                                              C10_Marker(rise[k], set[k]))
                    /\ ret.value[k].hhmm = <<>>

C10_Witness ==
    /\ Constructed
    /\ call = "duration_days_year"
    /\ ret.value[1] = ListStr(2021, 1, 1, "PN")
    /\ ret.value[172] = ListStr(2021, 6, 21, "PD")
    /\ setutc(place, <<2021, 6, 21>>) = Str("PD")

-----------------------------------------------------------------------------
(* C11 as claimed: the pair PDPN_length returns holds the number of 'PD'   *)
(* days of the year first and the number of 'PN' days second.              *)
C11_PolarDayCountFirst ==
    (call = "PDPN_length" /\ IsSky(place))
    => /\ ret.value[1] = Cardinality(MarkerDays("PD"))
       /\ ret.value[2] = Cardinality(MarkerDays("PN"))

-----------------------------------------------------------------------------
(* C12 as claimed: for s in 0..86400, seconds_to_hhmm(s) is s rounded to   *)
(* the minute with a remainder of 30 seconds or more rounded up, a minute  *)
(* of 60 carried into the hour, 24 hours or more given as [24, 0], and     *)
(* 0 <= hh <= 24, 0 <= mm <= 59.                                           *)
C12_HalfUp(s) ==
    LET minutes == (s + 30) \div 60
    IN  IF minutes \div 60 >= 24 THEN <<24, 0>> ELSE <<minutes \div 60, minutes % 60>>

C12_RoundsHalfUp ==
    call = "seconds_to_hhmm"
    => /\ ret.value = C12_HalfUp(arg)
       /\ 0 <= ret.value[1] /\ ret.value[1] <= 24
       /\ 0 <= ret.value[2] /\ ret.value[2] <= 59

-----------------------------------------------------------------------------
(* C13: for a day fraction f = s/86400 with 0 <= s < 86400,                *)
(* round_fractionDay_toHM(f) is (h, m) with 0 <= h <= 23 and 0 <= m <= 59, *)
(* a minute nearest to f (within 30 seconds of it), the minute 60 carried  *)
(* into the next hour, and (23, 59) when the nearest minute is 24:00.      *)
C13_NearestMinute ==
    call = "round_fractionDay_toHM"
    => LET h == ret.value[1]
           m == ret.value[2]
       IN  /\ 0 <= h /\ h <= 23
           /\ 0 <= m /\ m <= 59
           /\ IF arg >= DAY_SECONDS - 30 THEN ret.value = <<23, 59>>
              ELSE /\ Abs((h * 60 + m) * 60 - arg) <= 30
                   /\ arg % 3600 > 3570 => (m = 0 /\ h = (arg \div 3600) + 1)

C13_Witness ==
    /\ call = "round_fractionDay_toHM"
    /\ arg = DAY_SECONDS - 1
    /\ ret.value = <<23, 59>>

-----------------------------------------------------------------------------
(* C14 as claimed: exchanging 'PD' and 'PN' on every day of the year       *)
(* exchanges the (PD_begin, PD_end) PDPN_dates returns with the (PN_begin, *)
(* PN_end) it returns, 'No Polar Day' standing for 'No Polar Night', and   *)
(* the call returns for the one year exactly when it returns for the other.*)
C14_Other(k) == IF k = "PD" THEN "PN" ELSE IF k = "PN" THEN "PD" ELSE k

C14_Exchanged(sk) ==
    [sk EXCEPT !.prefix = [i \in 1..Len(sk.prefix) |-> C14_Other(sk.prefix[i])],
               !.suffix = [i \in 1..Len(sk.suffix) |-> C14_Other(sk.suffix[i])],
               !.stretch = C14_Other(sk.stretch)]

C14_Text(v) ==
    IF v = StrVal("No Polar Day") THEN StrVal("No Polar Night")
    ELSE IF v = StrVal("No Polar Night") THEN StrVal("No Polar Day")
    ELSE v

C14_SameForBothMarkers ==
    (call = "PDPN_dates" /\ IsSky(place))
    => \A other \in {PDPN_dates(year, C14_Exchanged(place))} :
          /\ (ret.outcome = "return") <=> (other.outcome = "return")
          /\ (ret.outcome = "return" /\ other.outcome = "return")
             => /\ other.value[1] = C14_Text(ret.value[3])
                /\ other.value[2] = C14_Text(ret.value[4])
                /\ other.value[3] = C14_Text(ret.value[1])
                /\ other.value[4] = C14_Text(ret.value[2])

-----------------------------------------------------------------------------
(* C15: for a place and a date, riseutc and setutc return two datetimes or *)
(* the same marker; durationdelta never returns 'Not calculable :          *)
(* changement jour/nuit polaire', and in duration_days_year no day has a   *)
(* datetime for its sunrise and a marker for its sunset.                   *)
C15_Alike(rise, set) ==
    /\ isinstance_str(rise) <=> isinstance_str(set)
    /\ isinstance_str(rise) => (rise = set /\ rise.s \in {"PD", "PN"})

C15_RiseAndSetAlike ==
    Constructed
    => /\ call = "riseutc" => C15_Alike(ret.value, setutc(place, arg))
       /\ call = "setutc" => C15_Alike(riseutc(place, arg), ret.value)
       /\ call = "durationdelta" =>
             ret.value # Str("Not calculable : changement jour/nuit polaire")
       /\ call = "duration_days_year" =>
             \A rise \in {rise_days_year_utc(year, place)},
                set \in {set_days_year_utc(year, place)} :
                \A k \in 1..Len(ret.value) :
                   /\ C15_Alike(rise[k], set[k])
                   /\ isinstance_str(set[k]) => ret.value[k].s = rise[k].s

C15_Witness ==
    /\ Constructed
    /\ call = "durationdelta"
    /\ riseutc(place, arg) = Str("PD")
    /\ setutc(place, arg) = Str("PD")
    /\ ret.value = Str("Not calculable : PD")

-----------------------------------------------------------------------------
(* C16 as claimed: on every day with a sunrise and a sunset that are       *)
(* datetimes with rise <= set <= rise + 24 hours, the (h, m) durationtuple *)
(* returns is the hours and minutes of that day's record in                *)
(* duration_days_year.                                                     *)
C16_DurationPathsAgree ==
    (Constructed /\ call = "duration_days_year")
    => \A days \in {days_year(year)} :
          \A k \in 1..Len(ret.value) :
             \A delta \in {durationdelta(place, days[k])} :
                (/\ ~isinstance_str(delta)
                 /\ 0 <= total_seconds(delta)
                 /\ total_seconds(delta) <= DAY_SECONDS)
                => durationtuple_of(delta).hm = ret.value[k].hhmm

-----------------------------------------------------------------------------
(* C17: when PDPN_dates returns, PD_begin and PD_end are each the (month,  *)
(* day) of a day of the year whose record carries 'PD', PN_begin and       *)
(* PN_end each that of a day whose record carries 'PN'; for a marker no    *)
(* day carries, both are 'No Polar Day' / 'No Polar Night'.                *)
C17_Reported(v, S, none, days) ==
    IF S = {} THEN v = StrVal(none)
    ELSE \E i \in S : v = Tuple(days[i + 1][2], days[i + 1][3])

C17_ReportedDaysCarryMarker ==
    (Returned /\ IsSky(place))
    => \A days \in {days_year(year)}, PD \in {MarkerDays("PD")}, PN \in {MarkerDays("PN")} :
          /\ C17_Reported(ret.value[1], PD, "No Polar Day", days)
          /\ C17_Reported(ret.value[2], PD, "No Polar Day", days)
          /\ C17_Reported(ret.value[3], PN, "No Polar Night", days)
          /\ C17_Reported(ret.value[4], PN, "No Polar Night", days)

C17_Witness ==
    /\ Returned
    /\ IsSky(place)
    /\ MarkerDays("PD") # {}
    /\ MarkerDays("PN") # {}
    /\ MarkerDays("RS") # {}
    /\ ret.value[2] = DateOf(ret.frame.PD_index[2])
    /\ ret.value[3] = DateOf(ret.frame.PN_index[1])

====
